---- MODULE Spec2Model ----
\* The List adapter of src/src/js_list.cpp: the property hooks (get, set,
\* enumerate) and the array-shaped methods (push, pop, unshift, shift, splice)
\* that expose a store-owned ordered collection to the host runtime.
\*
\* One action models one complete call of a hook or method: the List
\* primitives it calls, the exception it catches and what it leaves in
\* returnObject and jsException.  The List class, the index parser and the
\* argument validators live outside js_list.cpp; they are modelled from the
\* behaviour the specification gives them.
EXTENDS Integers, Sequences, FiniteSets, TLC

VARIABLES
    list,           \* contents of the underlying collection, in order
    inTransaction,  \* the store session has an active write transaction
    sessionOpen,    \* the owning store session has not been torn down
    call,           \* the last call: its name, its arguments, the list before it
    returnObject,   \* what the call handed back to the host
    jsException,    \* the error the call reported to the host, or "none"
    escaped,        \* the exception that left a hook uncaught, or "none"
    adapters,       \* the wrapper objects RJSListCreate has made
    committed,      \* what the collection held when the last transaction committed
    view,           \* the snapshot the host holds
    primitiveCalls  \* the calls on the collection the last splice made

vars ==
    <<list, inTransaction, sessionOpen, call, returnObject, jsException, escaped,
      adapters, committed, view, primitiveCalls>>

----------------------------------------------------------------------------
\* Bounds of the model.

MaxLen == 3         \* longest list explored
MaxArgs == 2        \* most values passed to push / unshift, most items to splice
MaxKeyLen == 2      \* longest property key explored (besides "length")
MaxAdapters == 2    \* most wrapper objects over the collection

\* Values the host can pass: two store objects of the list's element schema
\* and one value that is not convertible to it.
Objects == {"a", "b"}
NonObject == "s"
JSValues == Objects \cup {NonObject}

\* Numbers passed to splice: below -size, above size, and everything between.
Numbers == (0 - (MaxLen + 1)) .. (MaxLen + 1)

\* Property keys are strings, modelled as sequences of characters.
KeyChars == {"0", "1", "2", "-", "+", ".", "a"}
LengthKey == <<"l", "e", "n", "g", "t", "h">>

SeqUpTo(S, n) == UNION {[1 .. k -> S] : k \in 0 .. n}

Keys == {LengthKey} \cup SeqUpTo(KeyChars, MaxKeyLen)

Min(x, y) == IF x < y THEN x ELSE y
Max(x, y) == IF x > y THEN x ELSE y

----------------------------------------------------------------------------
\* Exceptions.  The first two are the C++ types the hooks catch by name; the
\* others reach the generic std::exception handler.

NoException == "none"
OutOfRange == "OutOfRange"                              \* std::out_of_range
InvalidArgument == "InvalidArgument"                    \* std::invalid_argument
WriteOutsideTransaction == "WriteOutsideTransaction"
TypeMismatch == "TypeMismatch"
ReadOnlyProperty == "ReadOnlyProperty"
InvalidArgumentCount == "InvalidArgumentCount"
Invalidated == "Invalidated"                            \* session torn down

\* Values handed back to the host.
Ret(kind, num, obj, arr, names) ==
    [kind |-> kind, num |-> num, obj |-> obj, arr |-> arr, names |-> names]
RetNull == Ret("null", 0, "", <<>>, <<>>)
RetUndefined == Ret("undefined", 0, "", <<>>, <<>>)
RetNumber(n) == Ret("number", n, "", <<>>, <<>>)
RetBool(b) == Ret(IF b THEN "true" ELSE "false", 0, "", <<>>, <<>>)
RetNames(s) == Ret("names", 0, "", <<>>, s)

\* void RJSSetReturnUndefined / RJSSetReturnNumber / RJSSetReturnArray
RJSSetReturnUndefined == RetUndefined
RJSSetReturnNumber(n) == RetNumber(n)
RJSSetReturnArray(count, objects) == Ret("array", count, "", objects, <<>>)
\* RJSObjectCreate(ctx, Object(realm, schema, row)): the host wrapper of a row
RJSObjectCreate(o) == Ret("object", 0, o, <<>>, <<>>)

----------------------------------------------------------------------------
\* The index parser.

IsDigit(c) == c \in {"0", "1", "2", "3", "4", "5", "6", "7", "8", "9"}

DigitValue(c) ==
    CASE c = "0" -> 0 [] c = "1" -> 1 [] c = "2" -> 2 [] c = "3" -> 3
      [] c = "4" -> 4 [] c = "5" -> 5 [] c = "6" -> 6 [] c = "7" -> 7
      [] c = "8" -> 8 [] c = "9" -> 9

RECURSIVE ParseDecimal(_, _)
ParseDecimal(s, acc) ==
    IF s = <<>> THEN acc
    ELSE ParseDecimal(Tail(s), 10 * acc + DigitValue(Head(s)))

\* A canonical index key: decimal digits only, no leading zero.
IsCanonicalIndex(s) ==
    /\ Len(s) > 0
    /\ \A i \in 1 .. Len(s) : IsDigit(s[i])
    /\ (Len(s) > 1 => s[1] # "0")

\* RJSValidatedPositiveIndex(indexStr): the index, or std::invalid_argument.
RJSValidatedPositiveIndex(indexStr) ==
    IF IsCanonicalIndex(indexStr)
    THEN [exc |-> NoException, num |-> ParseDecimal(indexStr, 0)]
    ELSE [exc |-> InvalidArgument, num |-> 0]

\* RJSValidatedValueToNumber(ctx, value) converted to long: the numbers explored
\* are integers that a long holds, which the conversion keeps.
RJSValidatedValueToNumber(n) == n

\* RJSValidateArgumentCount / RJSValidateArgumentCountIsAtLeast
RJSValidateArgumentCount(argumentCount, expected) ==
    IF argumentCount = expected THEN NoException ELSE InvalidArgumentCount
RJSValidateArgumentCountIsAtLeast(argumentCount, expected) ==
    IF argumentCount >= expected THEN NoException ELSE InvalidArgumentCount

----------------------------------------------------------------------------
\* The List primitives.  Each yields the exception it throws (or "none"), the
\* collection afterwards and its result.

Prim(exc, L, num, obj) ==
    [exc |-> exc, list |-> L, num |-> num, obj |-> obj, calls |-> <<>>]
Throws(exc, L) == Prim(exc, L, 0, "")
Done(L) == Prim(NoException, L, 0, "")

\* NativeAccessor::to_object_index: only store objects of the schema convert.
Convertible(v) == v \in Objects

InsertAt(L, v, i) == SubSeq(L, 1, i) \o <<v>> \o SubSeq(L, i + 1, Len(L))
RemoveAt(L, i) == SubSeq(L, 1, i) \o SubSeq(L, i + 2, Len(L))

\* An index is a size_t: a negative number passed for it is a huge one.
InRange(i, last) == i >= 0 /\ i <= last

List_size(L) ==
    IF ~sessionOpen THEN Throws(Invalidated, L)
    ELSE Prim(NoException, L, Len(L), "")

List_get(L, i) ==
    IF ~sessionOpen THEN Throws(Invalidated, L)
    ELSE IF ~InRange(i, Len(L) - 1) THEN Throws(OutOfRange, L)
    ELSE Prim(NoException, L, 0, L[i + 1])

List_verify_in_transaction(L) ==
    IF ~inTransaction THEN Throws(WriteOutsideTransaction, L) ELSE Done(L)

List_set(L, v, i) ==
    IF ~sessionOpen THEN Throws(Invalidated, L)
    ELSE IF ~inTransaction THEN Throws(WriteOutsideTransaction, L)
    ELSE IF ~Convertible(v) THEN Throws(TypeMismatch, L)
    ELSE IF ~InRange(i, Len(L) - 1) THEN Throws(OutOfRange, L)
    ELSE Done([L EXCEPT ![i + 1] = v])

List_add(L, v) ==
    IF ~sessionOpen THEN Throws(Invalidated, L)
    ELSE IF ~inTransaction THEN Throws(WriteOutsideTransaction, L)
    ELSE IF ~Convertible(v) THEN Throws(TypeMismatch, L)
    ELSE Done(Append(L, v))

List_insert(L, v, i) ==
    IF ~sessionOpen THEN Throws(Invalidated, L)
    ELSE IF ~inTransaction THEN Throws(WriteOutsideTransaction, L)
    ELSE IF ~Convertible(v) THEN Throws(TypeMismatch, L)
    ELSE IF ~InRange(i, Len(L)) THEN Throws(OutOfRange, L)
    ELSE Done(InsertAt(L, v, i))

\* Mutant: the element is taken out before the write transaction is asked
\* for.
List_removeThenVerify(L, i) ==
    IF ~sessionOpen THEN Throws(Invalidated, L)
    ELSE IF ~InRange(i, Len(L) - 1) THEN Throws(OutOfRange, L)
    ELSE IF ~inTransaction THEN Throws(WriteOutsideTransaction, RemoveAt(L, i))
    ELSE Done(RemoveAt(L, i))

List_remove(L, i) ==
    IF ~sessionOpen THEN Throws(Invalidated, L)
    ELSE IF ~inTransaction THEN Throws(WriteOutsideTransaction, L)
    ELSE IF ~InRange(i, Len(L) - 1) THEN Throws(OutOfRange, L)
    ELSE Done(RemoveAt(L, i))

----------------------------------------------------------------------------
\* Outcome of a hook or method: the collection afterwards, the returned
\* value, the exception reported through jsException and the exception that
\* escaped uncaught.  An exception that leaves a hook unwinds into the host
\* runtime, which cannot handle it: the program ends there.

Outcome(L, ret, exc) ==
    [list |-> L, ret |-> ret, exc |-> exc, esc |-> NoException, calls |-> <<>>]
Escapes(L, exc) ==
    [list |-> L, ret |-> RetNull, exc |-> NoException, esc |-> exc, calls |-> <<>>]

\* RJSSetException(ctx, exceptionObject, exception): the host runtime always
\* passes a place for the exception, so it is always stored.
RJSSetException(L, ret, exc) == Outcome(L, ret, exc)

----------------------------------------------------------------------------
\* The property hooks.

\* Mutant: std::out_of_range is not caught on its own and reaches the
\* generic handler.
ListGetPropertyCatchNoRange(L, exc) ==
    IF exc = InvalidArgument THEN Outcome(L, RetNull, NoException)
    ELSE Outcome(L, RetNull, exc)

\* The catch clauses of ListGetProperty.
ListGetPropertyCatch(L, exc) ==
    IF exc = OutOfRange THEN Outcome(L, RetUndefined, NoException)
    ELSE IF exc = InvalidArgument THEN Outcome(L, RetNull, NoException)
    ELSE Outcome(L, RetNull, exc)

ListGetProperty(L, propertyName) ==
    IF propertyName = LengthKey
    THEN LET s == List_size(L)
         IN  IF s.exc # NoException THEN ListGetPropertyCatch(L, s.exc)
             ELSE Outcome(L, RetNumber(s.num), NoException)
    ELSE LET idx == RJSValidatedPositiveIndex(propertyName)
         IN  IF idx.exc # NoException THEN ListGetPropertyCatch(L, idx.exc)
             ELSE LET g == List_get(L, idx.num)
                  IN  IF g.exc # NoException THEN ListGetPropertyCatch(L, g.exc)
                      ELSE Outcome(L, RJSObjectCreate(g.obj), NoException)

\* Mutant: std::invalid_argument is not caught on its own and is reported.
ListSetPropertyCatchNoParse(L, exc) == Outcome(L, RetBool(FALSE), exc)

\* The catch clauses of ListSetProperty.
ListSetPropertyCatch(L, exc) ==
    IF exc = InvalidArgument THEN Outcome(L, RetBool(FALSE), NoException)
    ELSE Outcome(L, RetBool(FALSE), exc)

\* Mutant: the value is inserted at the index instead of replacing the
\* element there.
ListSetPropertyInserts(L, propertyName, value) ==
    IF propertyName = LengthKey
    THEN ListSetPropertyCatch(L, ReadOnlyProperty)
    ELSE LET idx == RJSValidatedPositiveIndex(propertyName)
         IN  IF idx.exc # NoException THEN ListSetPropertyCatch(L, idx.exc)
             ELSE LET w == List_insert(L, value, idx.num)
                  IN  IF w.exc # NoException THEN ListSetPropertyCatch(w.list, w.exc)
                      ELSE Outcome(w.list, RetBool(TRUE), NoException)

\* Mutant: "length" is not singled out and is parsed as an index.
ListSetPropertyNoLength(L, propertyName, value) ==
    LET idx == RJSValidatedPositiveIndex(propertyName)
    IN  IF idx.exc # NoException THEN ListSetPropertyCatch(L, idx.exc)
        ELSE LET w == List_set(L, value, idx.num)
             IN  IF w.exc # NoException THEN ListSetPropertyCatch(w.list, w.exc)
                 ELSE Outcome(w.list, RetBool(TRUE), NoException)

ListSetProperty(L, propertyName, value) ==
    IF propertyName = LengthKey
    THEN ListSetPropertyCatch(L, ReadOnlyProperty)
    ELSE LET idx == RJSValidatedPositiveIndex(propertyName)
         IN  IF idx.exc # NoException THEN ListSetPropertyCatch(L, idx.exc)
             ELSE LET w == List_set(L, value, idx.num)
                  IN  IF w.exc # NoException THEN ListSetPropertyCatch(w.list, w.exc)
                      ELSE Outcome(w.list, RetBool(TRUE), NoException)

\* sprintf(str, "%zu", i): the decimal digits of i, most significant first.
DigitChar(d) ==
    CASE d = 0 -> "0" [] d = 1 -> "1" [] d = 2 -> "2" [] d = 3 -> "3"
      [] d = 4 -> "4" [] d = 5 -> "5" [] d = 6 -> "6" [] d = 7 -> "7"
      [] d = 8 -> "8" [] d = 9 -> "9"

RECURSIVE FormatDecimal(_)
FormatDecimal(i) ==
    IF i < 10 THEN <<DigitChar(i)>>
    ELSE Append(FormatDecimal(i \div 10), DigitChar(i % 10))

\* Mutant: the loop runs i = 1 .. size.
ListPropertyNamesFromOne(L) ==
    LET s == List_size(L)
    IN  IF s.exc # NoException THEN Escapes(L, s.exc)
        ELSE Outcome(L, RetNames([i \in 1 .. s.num |-> FormatDecimal(i)]), NoException)

\* ListPropertyNames has no try block: what List::size throws leaves the hook.
ListPropertyNames(L) ==
    LET s == List_size(L)
    IN  IF s.exc # NoException THEN Escapes(L, s.exc)
        ELSE Outcome(L, RetNames([i \in 1 .. s.num |-> FormatDecimal(i - 1)]), NoException)

----------------------------------------------------------------------------
\* The methods.  LIST_METHOD starts each with returnObject = NULL; a method
\* that throws before assigning it leaves NULL there.

\* Mutant: every round adds arguments[0].
RECURSIVE PushLoopFirstOnly(_, _, _)
PushLoopFirstOnly(L, arguments, i) ==
    IF i > Len(arguments) THEN Done(L)
    ELSE LET r == List_add(L, arguments[1])
         IN  IF r.exc # NoException THEN r
             ELSE PushLoopFirstOnly(r.list, arguments, i + 1)

\* for (i = 0; i < argumentCount; i++) list->add(ctx, arguments[i]);
RECURSIVE PushLoop(_, _, _)
PushLoop(L, arguments, i) ==
    IF i > Len(arguments) THEN Done(L)
    ELSE LET r == List_add(L, arguments[i])
         IN  IF r.exc # NoException THEN r
             ELSE PushLoop(r.list, arguments, i + 1)

\* Mutant: when a value is refused the values added before it are taken out
\* again.
ListPushRollsBack(L, arguments) ==
    LET c == RJSValidateArgumentCountIsAtLeast(Len(arguments), 1)
    IN  IF c # NoException THEN RJSSetException(L, RetNull, c)
        ELSE LET r == PushLoop(L, arguments, 1)
             IN  IF r.exc # NoException THEN RJSSetException(L, RetNull, r.exc)
                 ELSE LET s == List_size(r.list)
                      IN  IF s.exc # NoException
                          THEN RJSSetException(r.list, RetNull, s.exc)
                          ELSE Outcome(r.list, RJSSetReturnNumber(s.num), NoException)

ListPush(L, arguments) ==
    LET c == RJSValidateArgumentCountIsAtLeast(Len(arguments), 1)
    IN  IF c # NoException THEN RJSSetException(L, RetNull, c)
        ELSE LET r == PushLoop(L, arguments, 1)
             IN  IF r.exc # NoException THEN RJSSetException(r.list, RetNull, r.exc)
                 ELSE LET s == List_size(r.list)
                      IN  IF s.exc # NoException
                          THEN RJSSetException(r.list, RetNull, s.exc)
                          ELSE Outcome(r.list, RJSSetReturnNumber(s.num), NoException)

\* Mutant: the element taken is the one at index 0.
ListPopFront(L, arguments) ==
    LET c == RJSValidateArgumentCount(Len(arguments), 0)
        s == List_size(L)
    IN  IF c # NoException THEN RJSSetException(L, RetNull, c)
        ELSE IF s.exc # NoException THEN RJSSetException(L, RetNull, s.exc)
        ELSE IF s.num = 0
        THEN LET v == List_verify_in_transaction(L)
             IN  IF v.exc # NoException THEN RJSSetException(L, RetNull, v.exc)
                 ELSE Outcome(L, RJSSetReturnUndefined, NoException)
        ELSE LET g == List_get(L, 0)
             IN  IF g.exc # NoException THEN RJSSetException(L, RetNull, g.exc)
                 ELSE LET r == List_remove(L, 0)
                      IN  IF r.exc # NoException
                          THEN RJSSetException(r.list, RJSObjectCreate(g.obj), r.exc)
                          ELSE Outcome(r.list, RJSObjectCreate(g.obj), NoException)

ListPop(L, arguments) ==
    LET c == RJSValidateArgumentCount(Len(arguments), 0)
        s == List_size(L)
    IN  IF c # NoException THEN RJSSetException(L, RetNull, c)
        ELSE IF s.exc # NoException THEN RJSSetException(L, RetNull, s.exc)
        ELSE IF s.num = 0
        THEN LET v == List_verify_in_transaction(L)
             IN  IF v.exc # NoException THEN RJSSetException(L, RetNull, v.exc)
                 ELSE Outcome(L, RJSSetReturnUndefined, NoException)
        ELSE LET index == s.num - 1
                 g == List_get(L, index)
             IN  IF g.exc # NoException THEN RJSSetException(L, RetNull, g.exc)
                 ELSE LET r == List_remove(L, index)
                      IN  IF r.exc # NoException
                          THEN RJSSetException(r.list, RJSObjectCreate(g.obj), r.exc)
                          ELSE Outcome(r.list, RJSObjectCreate(g.obj), NoException)

\* Mutant: every value is inserted at position 0.
RECURSIVE UnshiftLoopAtZero(_, _, _)
UnshiftLoopAtZero(L, arguments, i) ==
    IF i > Len(arguments) THEN Done(L)
    ELSE LET r == List_insert(L, arguments[i], 0)
         IN  IF r.exc # NoException THEN r
             ELSE UnshiftLoopAtZero(r.list, arguments, i + 1)

\* for (i = 0; i < argumentCount; i++) list->insert(ctx, arguments[i], i);
RECURSIVE UnshiftLoop(_, _, _)
UnshiftLoop(L, arguments, i) ==
    IF i > Len(arguments) THEN Done(L)
    ELSE LET r == List_insert(L, arguments[i], i - 1)
         IN  IF r.exc # NoException THEN r
             ELSE UnshiftLoop(r.list, arguments, i + 1)

ListUnshift(L, arguments) ==
    LET c == RJSValidateArgumentCountIsAtLeast(Len(arguments), 1)
    IN  IF c # NoException THEN RJSSetException(L, RetNull, c)
        ELSE LET r == UnshiftLoop(L, arguments, 1)
             IN  IF r.exc # NoException THEN RJSSetException(r.list, RetNull, r.exc)
                 ELSE LET s == List_size(r.list)
                      IN  IF s.exc # NoException
                          THEN RJSSetException(r.list, RetNull, s.exc)
                          ELSE Outcome(r.list, RJSSetReturnNumber(s.num), NoException)

\* Mutant: the element at index 0 is returned but the last one is removed.
ListShiftRemovesLast(L, arguments) ==
    LET c == RJSValidateArgumentCount(Len(arguments), 0)
        s == List_size(L)
    IN  IF c # NoException THEN RJSSetException(L, RetNull, c)
        ELSE IF s.exc # NoException THEN RJSSetException(L, RetNull, s.exc)
        ELSE IF s.num = 0
        THEN LET v == List_verify_in_transaction(L)
             IN  IF v.exc # NoException THEN RJSSetException(L, RetNull, v.exc)
                 ELSE Outcome(L, RJSSetReturnUndefined, NoException)
        ELSE LET g == List_get(L, 0)
             IN  IF g.exc # NoException THEN RJSSetException(L, RetNull, g.exc)
                 ELSE LET r == List_remove(L, s.num - 1)
                      IN  IF r.exc # NoException
                          THEN RJSSetException(r.list, RJSObjectCreate(g.obj), r.exc)
                          ELSE Outcome(r.list, RJSObjectCreate(g.obj), NoException)

ListShift(L, arguments) ==
    LET c == RJSValidateArgumentCount(Len(arguments), 0)
        s == List_size(L)
    IN  IF c # NoException THEN RJSSetException(L, RetNull, c)
        ELSE IF s.exc # NoException THEN RJSSetException(L, RetNull, s.exc)
        ELSE IF s.num = 0
        THEN LET v == List_verify_in_transaction(L)
             IN  IF v.exc # NoException THEN RJSSetException(L, RetNull, v.exc)
                 ELSE Outcome(L, RJSSetReturnUndefined, NoException)
        ELSE LET g == List_get(L, 0)
             IN  IF g.exc # NoException THEN RJSSetException(L, RetNull, g.exc)
                 ELSE LET r == List_remove(L, 0)
                      IN  IF r.exc # NoException
                          THEN RJSSetException(r.list, RJSObjectCreate(g.obj), r.exc)
                          ELSE Outcome(r.list, RJSObjectCreate(g.obj), NoException)

\* Mutant: a negative start counts as 0.
SpliceIndexFromZero(size, start) ==
    LET index == Min(RJSValidatedValueToNumber(start), size)
    IN  IF index < 0 THEN 0 ELSE index

\* long index = std::min<long>(number(arguments[0]), size);
\* if (index < 0) index = std::max<long>(size + index, 0);
\* size + index is computed in size_t and converted back to long, which gives
\* the signed sum for the magnitudes a collection can have.
SpliceIndex(size, start) ==
    LET index == Min(RJSValidatedValueToNumber(start), size)
    IN  IF index < 0 THEN Max(size + index, 0) ELSE index

\* Mutant: the delete count is not limited to size - index.
SpliceRemoveUnlimited(size, index, numbers) ==
    IF Len(numbers) < 2 THEN size - index
    ELSE Max(RJSValidatedValueToNumber(numbers[2]), 0)

\* long remove: size - index with fewer than two arguments, else
\* std::min<long>(std::max<long>(number(arguments[1]), 0), size - index).
SpliceRemove(size, index, numbers) ==
    IF Len(numbers) < 2 THEN size - index
    ELSE Min(Max(RJSValidatedValueToNumber(numbers[2]), 0), size - index)

\* for (i = 0; i < remove; i++) { removedObjects[i] = get(index); remove(index); }
\* A call splice makes on the collection: its index and the size it meets.
Primitive(op, index, L) == [op |-> op, index |-> index, size |-> Len(L)]

\* The calls made first, then those of the rest of the loop.
After(calls, rest) == [rest EXCEPT !.calls = calls \o @]

RECURSIVE SpliceRemoveLoop(_, _, _, _)
SpliceRemoveLoop(L, index, remove, removedObjects) ==
    IF Len(removedObjects) >= remove
    THEN [exc |-> NoException, list |-> L, removed |-> removedObjects, calls |-> <<>>]
    ELSE LET g == List_get(L, index)
         IN  IF g.exc # NoException
             THEN [exc |-> g.exc, list |-> L, removed |-> removedObjects,
                   calls |-> <<Primitive("get", index, L)>>]
             ELSE LET r == List_remove(L, index)
                  IN  IF r.exc # NoException
                      THEN [exc |-> r.exc, list |-> r.list, removed |-> removedObjects,
                            calls |-> <<Primitive("get", index, L),
                                        Primitive("remove", index, L)>>]
                      ELSE After(<<Primitive("get", index, L),
                                   Primitive("remove", index, L)>>,
                                 SpliceRemoveLoop(r.list, index, remove,
                                                  Append(removedObjects, g.obj)))

\* Mutant: every item is inserted at index, without the offset i - 2.
RECURSIVE SpliceInsertLoopAtIndex(_, _, _, _)
SpliceInsertLoopAtIndex(L, items, index, i) ==
    IF i > Len(items) THEN Done(L)
    ELSE LET r == List_insert(L, items[i], index)
         IN  IF r.exc # NoException
             THEN After(<<Primitive("insert", index, L)>>, r)
             ELSE After(<<Primitive("insert", index, L)>>,
                        SpliceInsertLoopAtIndex(r.list, items, index, i + 1))

\* for (i = 2; i < argumentCount; i++) list->insert(ctx, arguments[i], index + i - 2);
RECURSIVE SpliceInsertLoop(_, _, _, _)
SpliceInsertLoop(L, items, index, i) ==
    IF i > Len(items) THEN Done(L)
    ELSE LET r == List_insert(L, items[i], index + i - 1)
         IN  IF r.exc # NoException
             THEN After(<<Primitive("insert", index + i - 1, L)>>, r)
             ELSE After(<<Primitive("insert", index + i - 1, L)>>,
                        SpliceInsertLoop(r.list, items, index, i + 1))

\* numbers holds arguments[0] and arguments[1] (those given), items the
\* arguments from index 2 onward.
ListSplice(L, numbers, items) ==
    LET s == List_size(L)
        c == RJSValidateArgumentCountIsAtLeast(Len(numbers) + Len(items), 1)
    IN  IF s.exc # NoException THEN RJSSetException(L, RetNull, s.exc)
        ELSE IF c # NoException THEN RJSSetException(L, RetNull, c)
        ELSE LET index == SpliceIndex(s.num, numbers[1])
                 remove == SpliceRemove(s.num, index, numbers)
                 d == SpliceRemoveLoop(L, index, remove, <<>>)
             IN  IF d.exc # NoException
                 THEN After(d.calls, RJSSetException(d.list, RetNull, d.exc))
                 ELSE LET r == SpliceInsertLoop(d.list, items, index, 1)
                      IN  IF r.exc # NoException
                          THEN After(d.calls \o r.calls,
                                     RJSSetException(r.list, RetNull, r.exc))
                          ELSE After(d.calls \o r.calls,
                                     Outcome(r.list, RJSSetReturnArray(remove, d.removed),
                                             NoException))

----------------------------------------------------------------------------
\* The view methods.  A view is handed back as a results object: whether it
\* is live, which method made it and, for a static view, the rows it holds.

\* List::get_query: the collection in its stored order.
List_get_query(L) ==
    IF ~sessionOpen THEN Throws(Invalidated, L) ELSE Done(L)

\* Mutant: the upper limit of the range is not checked.
RJSValidateArgumentRangeNoMax(argumentCount, min, max) ==
    IF argumentCount >= min THEN NoException ELSE InvalidArgumentCount

\* RJSValidateArgumentRange(argumentCount, min, max)
RJSValidateArgumentRange(argumentCount, min, max) ==
    IF argumentCount >= min /\ argumentCount <= max THEN NoException
    ELSE InvalidArgumentCount

\* RJSResultsCreate(ctx, realm, schema, query, live): a live view follows the
\* collection; a static one keeps the rows the query gives when it is made.
RJSResultsCreate(query, live) ==
    Ret("results", IF live THEN 1 ELSE 0, "snapshot", IF live THEN <<>> ELSE query, <<>>)

\* RJSResultsCreateFiltered / RJSResultsCreateSorted: live views whose rows
\* the query executor decides.
RJSResultsCreateFiltered(query, arguments) == Ret("results", 1, "filtered", <<>>, <<>>)
RJSResultsCreateSorted(query, arguments) == Ret("results", 1, "sorted", <<>>, <<>>)

\* Mutant: the view is made live.
ListStaticResultsLive(L, arguments) ==
    LET c == RJSValidateArgumentCount(Len(arguments), 0)
        q == List_get_query(L)
    IN  IF c # NoException THEN RJSSetException(L, RetNull, c)
        ELSE IF q.exc # NoException THEN RJSSetException(L, RetNull, q.exc)
        ELSE Outcome(L, RJSResultsCreate(q.list, TRUE), NoException)

ListStaticResults(L, arguments) ==
    LET c == RJSValidateArgumentCount(Len(arguments), 0)
        q == List_get_query(L)
    IN  IF c # NoException THEN RJSSetException(L, RetNull, c)
        ELSE IF q.exc # NoException THEN RJSSetException(L, RetNull, q.exc)
        ELSE Outcome(L, RJSResultsCreate(q.list, FALSE), NoException)

\* Mutant: the method asks for a write transaction first.
ListFilteredInTransaction(L, arguments) ==
    LET c == RJSValidateArgumentCountIsAtLeast(Len(arguments), 1)
        t == List_verify_in_transaction(L)
        q == List_get_query(L)
    IN  IF c # NoException THEN RJSSetException(L, RetNull, c)
        ELSE IF t.exc # NoException THEN RJSSetException(L, RetNull, t.exc)
        ELSE IF q.exc # NoException THEN RJSSetException(L, RetNull, q.exc)
        ELSE Outcome(L, RJSResultsCreateFiltered(q.list, arguments), NoException)

\* The store reference is read through RJSGetInternal<SharedRealm *>; it is
\* taken to be the session of the list.
ListFiltered(L, arguments) ==
    LET c == RJSValidateArgumentCountIsAtLeast(Len(arguments), 1)
        q == List_get_query(L)
    IN  IF c # NoException THEN RJSSetException(L, RetNull, c)
        ELSE IF q.exc # NoException THEN RJSSetException(L, RetNull, q.exc)
        ELSE Outcome(L, RJSResultsCreateFiltered(q.list, arguments), NoException)

ListSorted(L, arguments) ==
    LET c == RJSValidateArgumentRange(Len(arguments), 1, 2)
        q == List_get_query(L)
    IN  IF c # NoException THEN RJSSetException(L, RetNull, c)
        ELSE IF q.exc # NoException THEN RJSSetException(L, RetNull, q.exc)
        ELSE Outcome(L, RJSResultsCreateSorted(q.list, arguments), NoException)

----------------------------------------------------------------------------
\* The state machine.

\* Mutant: the wrapper gets a collection of its own with the same contents.
RJSListCreateDetached(L) == [shared |-> FALSE, rows |-> L]

\* RJSListCreate(ctx, list): a wrapper object around new List(list).  The
\* copy of a List is a handle on the same collection of the store.
RJSListCreate(L) == [shared |-> TRUE, rows |-> <<>>]

\* RJSGetInternal<List *>(thisObject): the collection the wrapper stands for.
RJSGetInternal(thisObject) ==
    IF adapters[thisObject].shared THEN list ELSE adapters[thisObject].rows

Call(this, op, key, value, numbers, args) ==
    [this |-> this, op |-> op, key |-> key, value |-> value, numbers |-> numbers,
     args |-> args, pre |-> RJSGetInternal(this)]

\* Between calls the host holds no result of the adapter.
Idle == "idle"

NoCall ==
    [this |-> 0, op |-> Idle, key |-> <<>>, value |-> "", numbers |-> <<>>,
     args |-> <<>>, pre |-> <<>>]

\* No snapshot is held.
NoView == [held |-> FALSE, live |-> FALSE, rows |-> <<>>, at |-> <<>>]

\* The contents a cancelled transaction goes back to are followed only by the
\* specification in which the host cancels; elsewhere committed is Untracked.
Untracked == <<"untracked">>

\* One adapter over an empty collection, no transaction, the session open.
Constructed ==
    /\ list = <<>>
    /\ adapters = <<RJSListCreate(list)>>
    /\ inTransaction = FALSE
    /\ sessionOpen = TRUE
    /\ view = NoView
    /\ call = NoCall
    /\ returnObject = RetNull
    /\ jsException = NoException
    /\ escaped = NoException
    /\ primitiveCalls = <<>>

Init ==
    /\ Constructed
    /\ committed = Untracked

InitTx ==
    /\ Constructed
    /\ committed = list

\* A call can start while the host is between calls and the program has not
\* ended in an uncaught exception.
Ready ==
    /\ escaped = NoException
    /\ call.op = Idle

\* The collection behind the wrapper takes the contents the call leaves.
Stored(thisObject, L) ==
    IF adapters[thisObject].shared
    THEN list' = L /\ adapters' = adapters
    ELSE list' = list /\ adapters' = [adapters EXCEPT ![thisObject].rows = L]

\* A call runs to its end: its outcome becomes the visible state.
Finish(c, o) ==
    /\ Len(o.list) <= MaxLen
    /\ call' = c
    /\ Stored(c.this, o.list)
    /\ returnObject' = o.ret
    /\ jsException' = o.exc
    /\ escaped' = o.esc
    /\ primitiveCalls' = o.calls
    /\ UNCHANGED <<inTransaction, sessionOpen, committed, view>>

\* The store session, driven by the host program.
Environment(tx, open, L, c) ==
    /\ inTransaction' = tx
    /\ sessionOpen' = open
    /\ list' = L
    /\ committed' = c
    /\ UNCHANGED <<adapters, view, call, returnObject, jsException, escaped,
                   primitiveCalls>>

BeginTransaction ==
    /\ Ready
    /\ sessionOpen /\ ~inTransaction
    /\ Environment(TRUE, TRUE, list, committed)

CommitTransaction ==
    /\ Ready
    /\ sessionOpen /\ inTransaction
    /\ Environment(FALSE, TRUE, list, IF committed = Untracked THEN Untracked ELSE list)

\* The host abandons the write transaction: the collection goes back to its
\* committed contents.
CancelTransaction ==
    /\ Ready
    /\ sessionOpen /\ inTransaction
    /\ committed # Untracked
    /\ Environment(FALSE, TRUE, committed, committed)

CloseSession ==
    /\ Ready
    /\ sessionOpen
    /\ Environment(FALSE, FALSE, list, committed)

\* The host takes the result of the last call and goes on.
HostContinues ==
    /\ escaped = NoException
    /\ call.op # Idle
    /\ call' = NoCall
    /\ returnObject' = RetNull
    /\ jsException' = NoException
    /\ primitiveCalls' = <<>>
    /\ UNCHANGED <<list, adapters, inTransaction, sessionOpen, committed, view, escaped>>

\* The binding wraps the same collection once more.
CreateAdapter ==
    /\ Ready
    /\ sessionOpen
    /\ Len(adapters) < MaxAdapters
    /\ adapters' = Append(adapters, RJSListCreate(list))
    /\ UNCHANGED <<list, inTransaction, sessionOpen, committed, view, call,
                   returnObject, jsException, escaped, primitiveCalls>>

\* The host keeps the view snapshot() has just returned; at is the contents
\* of the collection at that moment.
HoldSnapshot ==
    /\ escaped = NoException
    /\ call.op = "snapshot"
    /\ returnObject.kind = "results"
    /\ view' = [held |-> TRUE, live |-> returnObject.num = 1,
                rows |-> returnObject.arr, at |-> list]
    /\ call' = NoCall
    /\ returnObject' = RetNull
    /\ jsException' = NoException
    /\ primitiveCalls' = <<>>
    /\ UNCHANGED <<list, adapters, inTransaction, sessionOpen, committed, escaped>>

\* The rows a held view shows now.
ViewRows(v) == IF v.live THEN list ELSE v.rows

This == 1 .. Len(adapters)

GetProperty ==
    /\ Ready
    /\ \E this \in This, key \in Keys :
        Finish(Call(this, "get", key, "", <<>>, <<>>),
               ListGetProperty(RJSGetInternal(this), key))

SetProperty ==
    /\ Ready
    /\ \E this \in This, key \in Keys, value \in JSValues :
        Finish(Call(this, "set", key, value, <<>>, <<>>),
               ListSetProperty(RJSGetInternal(this), key, value))

PropertyNames ==
    /\ Ready
    /\ \E this \in This :
        Finish(Call(this, "keys", <<>>, "", <<>>, <<>>),
               ListPropertyNames(RJSGetInternal(this)))

Push ==
    /\ Ready
    /\ \E this \in This, arguments \in SeqUpTo(JSValues, MaxArgs) :
        Finish(Call(this, "push", <<>>, "", <<>>, arguments),
               ListPush(RJSGetInternal(this), arguments))

Pop ==
    /\ Ready
    /\ \E this \in This, arguments \in SeqUpTo(JSValues, 1) :
        Finish(Call(this, "pop", <<>>, "", <<>>, arguments),
               ListPop(RJSGetInternal(this), arguments))

Unshift ==
    /\ Ready
    /\ \E this \in This, arguments \in SeqUpTo(JSValues, MaxArgs) :
        Finish(Call(this, "unshift", <<>>, "", <<>>, arguments),
               ListUnshift(RJSGetInternal(this), arguments))

Shift ==
    /\ Ready
    /\ \E this \in This, arguments \in SeqUpTo(JSValues, 1) :
        Finish(Call(this, "shift", <<>>, "", <<>>, arguments),
               ListShift(RJSGetInternal(this), arguments))

\* splice(), splice(start), splice(start, deleteCount, items...)
SpliceArguments ==
    {<<n, <<>>>> : n \in SeqUpTo(Numbers, 1)}
        \cup ([1 .. 2 -> Numbers] \X SeqUpTo(JSValues, MaxArgs))

Splice ==
    /\ Ready
    /\ \E this \in This, a \in SpliceArguments :
        Finish(Call(this, "splice", <<>>, "", a[1], a[2]),
               ListSplice(RJSGetInternal(this), a[1], a[2]))

Snapshot ==
    /\ Ready
    /\ \E this \in This, arguments \in SeqUpTo(JSValues, 1) :
        Finish(Call(this, "snapshot", <<>>, "", <<>>, arguments),
               ListStaticResults(RJSGetInternal(this), arguments))

Filtered ==
    /\ Ready
    /\ \E this \in This, arguments \in SeqUpTo(JSValues, MaxArgs) :
        Finish(Call(this, "filtered", <<>>, "", <<>>, arguments),
               ListFiltered(RJSGetInternal(this), arguments))

\* sorted() takes one or two arguments: one more than that is tried.
Sorted ==
    /\ Ready
    /\ \E this \in This, arguments \in SeqUpTo(JSValues, MaxArgs + 1) :
        Finish(Call(this, "sorted", <<>>, "", <<>>, arguments),
               ListSorted(RJSGetInternal(this), arguments))

\* Every hook and method of the adapter, with the session driven by the host.
Next ==
    \/ BeginTransaction
    \/ CommitTransaction
    \/ CloseSession
    \/ HostContinues
    \/ GetProperty
    \/ SetProperty
    \/ PropertyNames
    \/ Push
    \/ Pop
    \/ Unshift
    \/ Shift
    \/ Splice
    \/ Snapshot
    \/ Filtered
    \/ Sorted

Spec == Init /\ [][Next]_vars

\* The host holds on to snapshots while the collection is mutated.
NextViews ==
    \/ BeginTransaction
    \/ HostContinues
    \/ Snapshot
    \/ HoldSnapshot
    \/ SetProperty
    \/ Push
    \/ Pop
    \/ Unshift
    \/ Shift
    \/ Splice

SpecViews == Init /\ [][NextViews]_vars

\* The host commits or cancels the transactions in which the methods of
\* several steps run.
NextTx ==
    \/ BeginTransaction
    \/ CommitTransaction
    \/ CancelTransaction
    \/ HostContinues
    \/ Push
    \/ Unshift
    \/ Splice

SpecTx == InitTx /\ [][NextTx]_vars

\* Several adapters wrap the collection.
NextAdapters ==
    \/ CreateAdapter
    \/ BeginTransaction
    \/ CommitTransaction
    \/ HostContinues
    \/ GetProperty
    \/ SetProperty
    \/ Push
    \/ Pop
    \/ Unshift
    \/ Shift
    \/ Splice

SpecAdapters == Init /\ [][NextAdapters]_vars

----------------------------------------------------------------------------
\* Properties of the methods.

\* Every value of the sequence is a store object of the element schema.
AllConvertible(values) == \A i \in 1 .. Len(values) : Convertible(values[i])

\* The last call was method op, made inside a write transaction.
InWrite(op) == call.op = op /\ inTransaction

Clamp(x, lo, hi) == IF x < lo THEN lo ELSE IF x > hi THEN hi ELSE x

\* The start position the contract of splice gives for a list of that size.
ContractStart(size, start) ==
    LET s == IF start < size THEN start ELSE size
    IN  IF s < 0 THEN (IF size + s > 0 THEN size + s ELSE 0) ELSE s

\* The number of deletions the contract of splice gives.
ContractDelete(size, s, numbers) ==
    IF Len(numbers) < 2 THEN size - s ELSE Clamp(numbers[2], 0, size - s)

\* C1: splice(start, deleteCount?, items...) inside a write transaction, for
\* every integer start and every deleteCount (absent included) and items of
\* the element schema: with s and d the normalised start and delete count, the
\* call returns L[s .. s+d-1] in order and leaves L[0 .. s-1], the items in
\* argument order, then L[s+d .. size-1].
C1_SpliceContract ==
    (InWrite("splice") /\ Len(call.numbers) >= 1 /\ AllConvertible(call.args)) =>
        LET L == call.pre
            size == Len(L)
            s == ContractStart(size, call.numbers[1])
            d == ContractDelete(size, s, call.numbers)
        IN  /\ jsException = NoException
            /\ returnObject.kind = "array"
            /\ returnObject.num = d
            /\ returnObject.arr = SubSeq(L, s + 1, s + d)
            /\ list = SubSeq(L, 1, s) \o call.args \o SubSeq(L, s + d + 1, size)

\* splice(-2, 2, b, a) on [b, a, b]: a negative start, two elements removed
\* and two items inserted in their place.
C1_Witness ==
    /\ InWrite("splice")
    /\ call.pre = <<"b", "a", "b">>
    /\ call.numbers = <<0 - 2, 2>>
    /\ call.args = <<"b", "a">>
    /\ returnObject.arr = <<"a", "b">>
    /\ list = <<"b", "b", "a">>

\* The element the property hook reads at index i of the current list.
ReadAt(i) == ListGetProperty(list, FormatDecimal(i)).ret

\* C3: push(v) with a non-empty v of values of the element schema, inside a
\* write transaction on a list of length size_before, returns
\* size_before + len(v), leaves elements 0 .. size_before-1 unchanged, and
\* afterwards reading index size_before + i yields v[i].
C3_PushContract ==
    (InWrite("push") /\ Len(call.args) >= 1 /\ AllConvertible(call.args)) =>
        LET before == Len(call.pre)
        IN  /\ jsException = NoException
            /\ returnObject = RetNumber(before + Len(call.args))
            /\ SubSeq(list, 1, before) = call.pre
            /\ \A i \in 1 .. Len(call.args) :
                   ReadAt(before + i - 1) = RJSObjectCreate(call.args[i])

\* push(b, a) on [a]
C3_Witness ==
    /\ InWrite("push")
    /\ call.pre = <<"a">>
    /\ call.args = <<"b", "a">>
    /\ returnObject.kind = "number"

\* C4: unshift(v) with a non-empty v of values of the element schema, inside
\* a write transaction on a list L, leaves v in its order followed by L in its
\* order, and returns len(L) + len(v).
C4_UnshiftContract ==
    (InWrite("unshift") /\ Len(call.args) >= 1 /\ AllConvertible(call.args)) =>
        /\ jsException = NoException
        /\ list = call.args \o call.pre
        /\ returnObject = RetNumber(Len(call.pre) + Len(call.args))

\* unshift(a, b) on [b]
C4_Witness ==
    /\ InWrite("unshift")
    /\ call.pre = <<"b">>
    /\ call.args = <<"a", "b">>
    /\ returnObject.kind = "number"

\* C5: pop() with no arguments inside a write transaction returns the last
\* element and removes exactly it from a non-empty list; on an empty list it
\* returns undefined, raises nothing and leaves the list empty.
C5_PopContract ==
    (InWrite("pop") /\ call.args = <<>>) =>
        LET size == Len(call.pre)
        IN  /\ jsException = NoException
            /\ size > 0 => /\ returnObject = RJSObjectCreate(call.pre[size])
                           /\ Len(list) = size - 1
                           /\ list = SubSeq(call.pre, 1, size - 1)
            /\ size = 0 => /\ returnObject = RetUndefined
                           /\ list = <<>>

\* pop() on [a, a, b]
C5_Witness ==
    /\ InWrite("pop")
    /\ call.args = <<>>
    /\ call.pre = <<"a", "a", "b">>
    /\ returnObject.obj = "b"

\* C6: shift() with no arguments inside a write transaction returns the
\* element at index 0 of a non-empty list, and every other element moves down
\* one position in order; on an empty list it returns undefined, raises
\* nothing and leaves the list empty.
C6_ShiftContract ==
    (InWrite("shift") /\ call.args = <<>>) =>
        LET size == Len(call.pre)
        IN  /\ jsException = NoException
            /\ size > 0 => /\ returnObject = RJSObjectCreate(call.pre[1])
                           /\ Len(list) = size - 1
                           /\ \A i \in 1 .. size - 1 : list[i] = call.pre[i + 1]
            /\ size = 0 => /\ returnObject = RetUndefined
                           /\ list = <<>>

\* shift() on [a, b, b]
C6_Witness ==
    /\ InWrite("shift")
    /\ call.args = <<>>
    /\ call.pre = <<"a", "b", "b">>
    /\ returnObject.obj = "a"

\* The method calls and indexed writes that change the list.
Mutators == {"push", "pop", "shift", "unshift", "splice"}

\* The last call had an argument count its method accepts.
CorrectArity ==
    CASE call.op \in {"push", "unshift"} -> Len(call.args) >= 1
      [] call.op \in {"pop", "shift"} -> Len(call.args) = 0
      [] call.op = "splice" -> Len(call.numbers) >= 1
      [] OTHER -> TRUE

----------------------------------------------------------------------------
\* Properties of the property hooks.

RECURSIVE PowerOfTen(_)
PowerOfTen(n) == IF n = 0 THEN 1 ELSE 10 * PowerOfTen(n - 1)

\* The exact decimal representations of the non-negative integers that fit in
\* a key of the explored length, and the integer each one represents.
IndexRange == 0 .. (PowerOfTen(MaxKeyLen) - 1)
DecimalKeys == {FormatDecimal(n) : n \in IndexRange}
IndexOfKey == [k \in DecimalKeys |-> CHOOSE n \in IndexRange : FormatDecimal(n) = k]

\* The last call was a property read or write of a canonical index >= size().
BeyondEnd(op) ==
    /\ call.op = op
    /\ call.key \in DecimalKeys
    /\ IndexOfKey[call.key] >= Len(call.pre)

\* C2: any mutating call (push, pop, shift, unshift, splice, indexed set)
\* made with correct arity while the session is open and no write
\* transaction is active fails with WriteOutsideTransaction, whatever the
\* list holds and also when the call would change nothing.
C2_WriteOutsideTransaction ==
    (/\ sessionOpen /\ ~inTransaction
     /\ \/ call.op \in Mutators /\ CorrectArity
        \/ call.op = "set" /\ call.key \in DecimalKeys)
        => jsException = WriteOutsideTransaction

C9_KeysContract ==
    (call.op = "keys" /\ sessionOpen) =>
        /\ escaped = NoException
        /\ jsException = NoException
        /\ returnObject.kind = "names"
        /\ Len(returnObject.names) = Len(list)
        /\ \A i \in 1 .. Len(returnObject.names) :
               /\ returnObject.names[i] \in DecimalKeys
               /\ IndexOfKey[returnObject.names[i]] = i - 1
        /\ ListGetProperty(list, LengthKey).ret = RetNumber(Len(returnObject.names))

\* keys() on a list of three elements.
C9_Witness ==
    /\ call.op = "keys"
    /\ sessionOpen
    /\ Len(list) = MaxLen
    /\ returnObject.names = <<<<"0">>, <<"1">>, <<"2">>>>

\* C10: a property write to "length" fails with ReadOnlyProperty for every
\* value, with or without a write transaction, and leaves the list unchanged.
C10_LengthReadOnly ==
    (call.op = "set" /\ call.key = LengthKey) =>
        /\ jsException = ReadOnlyProperty
        /\ returnObject = RetBool(FALSE)
        /\ list = call.pre
        /\ Len(list) = Len(call.pre)

\* A write of a to "length" of [a, b] inside a write transaction.
C10_Witness ==
    /\ inTransaction
    /\ call.op = "set"
    /\ call.key = LengthKey
    /\ call.value = "a"
    /\ call.pre = <<"a", "b">>
    /\ jsException = ReadOnlyProperty

----------------------------------------------------------------------------
\* Properties of the argument counts, of the views and of the session.

\* The last call had an argument count its method refuses.
WrongArity ==
    CASE call.op \in {"push", "unshift", "filtered"} -> Len(call.args) = 0
      [] call.op = "splice" -> Len(call.numbers) + Len(call.args) = 0
      [] call.op \in {"pop", "shift", "snapshot"} -> Len(call.args) >= 1
      [] call.op = "sorted" -> Len(call.args) = 0 \/ Len(call.args) > 2
      [] OTHER -> FALSE

\* C11: a method called with the wrong number of arguments (push, unshift,
\* splice or filtered with none; pop, shift or snapshot with one or more;
\* sorted with none or more than two) fails with InvalidArgumentCount and
\* leaves the list unchanged, whatever the list holds and with or without a
\* write transaction.  The adapter is a valid one: its session is open.  Of
\* the methods only splice asks the collection anything before it counts its
\* arguments, so for the others the same holds after the session has closed.
C11_InvalidArgumentCount ==
    (WrongArity /\ (sessionOpen \/ call.op # "splice")) =>
        /\ jsException = InvalidArgumentCount
        /\ escaped = NoException
        /\ returnObject = RetNull
        /\ list = call.pre

\* sorted() with three arguments on a list of two elements, inside a write
\* transaction.
C11_Witness ==
    /\ call.op = "sorted"
    /\ Len(call.args) = 3
    /\ inTransaction
    /\ call.pre = <<"a", "b">>
    /\ jsException = InvalidArgumentCount
    /\ list = call.pre

\* C12: the view snapshot() returns keeps the membership and the order the
\* list had when snapshot() was called, through every later push, pop, shift,
\* unshift, splice and indexed write on the list.
C12_SnapshotIsStatic ==
    view.held =>
        /\ ~view.live
        /\ ViewRows(view) = view.at
        /\ Len(ViewRows(view)) = Len(view.at)

\* A snapshot of [a, b] is held; the list has since become [b] by shift().
C12_Witness ==
    /\ view.held
    /\ view.at = <<"a", "b">>
    /\ call.op = "shift"
    /\ jsException = NoException
    /\ list = <<"b">>
    /\ ViewRows(view) = <<"a", "b">>

\* The last call was an operation of the adapter: a method, the enumeration
\* of the keys, or a property read or write whose key is "length" or parses
\* as an index (any other key is not the adapter's and goes to the host).
AdapterOperation ==
    /\ call.op # Idle
    /\ call.op \in {"get", "set"} =>
           \/ call.key = LengthKey
           \/ RJSValidatedPositiveIndex(call.key).exc = NoException

\* C13: once the session has been torn down every operation of the adapter
\* (property get, property set, key enumeration, push, pop, shift, unshift,
\* splice, snapshot, filtered, sorted) ends in an error reported to the
\* caller, and none ends in an uncaught failure.
C13_ErrorAfterTeardown ==
    (~sessionOpen /\ AdapterOperation) =>
        /\ escaped = NoException
        /\ jsException # NoException

\* After the teardown every operation but the enumeration of the keys ends
\* in a reported error.
TeardownReportedExceptKeys ==
    (~sessionOpen /\ AdapterOperation /\ call.op # "keys") =>
        /\ escaped = NoException
        /\ jsException # NoException

\* After the teardown the enumeration of the keys ends in an uncaught
\* exception.
TeardownKeysEscape ==
    (~sessionOpen /\ call.op = "keys") => escaped = Invalidated

\* The last call was a read with arguments its operation accepts: a property
\* read of "length" or of a canonical index, the enumeration of the keys,
\* snapshot(), filtered(query, ...), sorted(key) or sorted(key, order).
ReadWithValidArguments ==
    \/ call.op = "get" /\ (call.key = LengthKey \/ call.key \in DecimalKeys)
    \/ call.op = "keys"
    \/ call.op = "snapshot" /\ Len(call.args) = 0
    \/ call.op = "filtered" /\ Len(call.args) >= 1
    \/ call.op = "sorted" /\ Len(call.args) \in {1, 2}

\* What a read hands back when it succeeds.
ReadResult ==
    CASE call.op = "get" /\ call.key = LengthKey -> returnObject = RetNumber(Len(call.pre))
      [] call.op = "get" /\ call.key # LengthKey ->
            IF IndexOfKey[call.key] < Len(call.pre)
            THEN returnObject = RJSObjectCreate(call.pre[IndexOfKey[call.key] + 1])
            ELSE returnObject = RetUndefined
      [] call.op = "keys" -> Len(returnObject.names) = Len(call.pre)
      [] OTHER -> returnObject.kind = "results"

\* C14: while the session is valid and no write transaction is active, every
\* read (indexed get, get of "length", key enumeration, snapshot, filtered,
\* sorted) with valid arguments succeeds, without a transaction error, and
\* leaves the size and the contents of the list unchanged.
C14_ReadsNeedNoTransaction ==
    (sessionOpen /\ ~inTransaction /\ ReadWithValidArguments) =>
        /\ jsException = NoException
        /\ escaped = NoException
        /\ ReadResult
        /\ list = call.pre
        /\ Len(list) = Len(call.pre)

\* filtered(query) succeeds on the committed list [a, b] with no write
\* transaction active.
C14_Witness ==
    /\ sessionOpen
    /\ ~inTransaction
    /\ call.op = "filtered"
    /\ Len(call.args) = 1
    /\ call.pre = <<"a", "b">>
    /\ list = <<"a", "b">>
    /\ returnObject.kind = "results"
    /\ jsException = NoException

\* What a host reads through a wrapper: the length and the element at every
\* index.
Observed(thisObject) ==
    [size |-> ListGetProperty(RJSGetInternal(thisObject), LengthKey).ret,
     elements |-> [i \in 0 .. (MaxLen - 1) |->
                      ListGetProperty(RJSGetInternal(thisObject), FormatDecimal(i)).ret]]

\* What a host reads of a collection with these contents.
ObservedOf(L) ==
    [size |-> RetNumber(Len(L)),
     elements |-> [i \in 0 .. (MaxLen - 1) |->
                      IF i < Len(L) THEN RJSObjectCreate(L[i + 1]) ELSE RetUndefined]]

----------------------------------------------------------------------------
\* Properties of the mutations.

\* C16: a property write to a canonical index i < size(), inside a write
\* transaction and with a value convertible to the element schema, replaces
\* exactly element i with the value and reports the write handled: the size
\* and every other element are unchanged.
C16_IndexedWrite ==
    (InWrite("set") /\ sessionOpen /\ call.key \in DecimalKeys /\ Convertible(call.value)) =>
        LET i == IndexOfKey[call.key]
        IN  i < Len(call.pre) =>
                /\ jsException = NoException
                /\ returnObject = RetBool(TRUE)
                /\ Len(list) = Len(call.pre)
                /\ list[i + 1] = call.value
                /\ \A j \in 1 .. Len(call.pre) : j # i + 1 => list[j] = call.pre[j]

\* list[1] = b on [a, a, a] inside a write transaction gives [a, b, a].
C16_Witness ==
    /\ InWrite("set")
    /\ call.key = <<"1">>
    /\ call.value = "b"
    /\ call.pre = <<"a", "a", "a">>
    /\ list = <<"a", "b", "a">>
    /\ returnObject = RetBool(TRUE)
    /\ jsException = NoException

\* The position of the first value that is not of the element schema.
FirstRefused(values) ==
    CHOOSE k \in 1 .. Len(values) :
        /\ ~Convertible(values[k])
        /\ \A j \in 1 .. (k - 1) : Convertible(values[j])

\* The last call was a push, unshift or splice inside a write transaction
\* one of whose values is not of the element schema.
PartialFailure ==
    /\ inTransaction
    /\ call.op \in {"push", "unshift", "splice"}
    /\ ~AllConvertible(call.args)

\* The list after the steps the call completed before the refused value.
CompletedSteps ==
    LET L == call.pre
        done == SubSeq(call.args, 1, FirstRefused(call.args) - 1)
    IN  CASE call.op = "push" -> L \o done
          [] call.op = "unshift" -> done \o L
          [] call.op = "splice" ->
                LET s == ContractStart(Len(L), call.numbers[1])
                    d == ContractDelete(Len(L), s, call.numbers)
                IN  SubSeq(L, 1, s) \o done \o SubSeq(L, s + d + 1, Len(L))

\* The failed call raises the error and leaves its completed steps in place.
StepsRemain ==
    PartialFailure =>
        /\ jsException = TypeMismatch
        /\ returnObject = RetNull
        /\ list = CompletedSteps

\* A write transaction ends in a commit, which keeps what the list holds, or
\* in a cancel, which puts the committed contents back; nothing else changes
\* the committed contents, and nothing takes the completed steps of a failed
\* call out of the list while the transaction lasts.
OnlyTheCallerEnds ==
    /\ (inTransaction /\ ~inTransaction') =>
           \/ list' = list /\ committed' = list
           \/ list' = committed /\ committed' = committed
    /\ ~(inTransaction /\ ~inTransaction') => committed' = committed
    /\ (PartialFailure /\ inTransaction') => list' = list

\* C17: a mutation of several steps (push, unshift, splice) that fails part
\* way, on a value that is not of the element schema, is not rolled back by
\* the adapter: the steps completed before the failure remain in the list
\* within the transaction and the error is raised; the effects go away only
\* if the caller cancels the transaction and last only if the caller commits.
C17_NoRollback == []StepsRemain /\ [][OnlyTheCallerEnds]_vars

\* push(a, s) on the committed list [b]: a has been added, s refused, and
\* the transaction is still open.
C17_Witness ==
    /\ InWrite("push")
    /\ call.args = <<"a", NonObject>>
    /\ call.pre = <<"b">>
    /\ committed = <<"b">>
    /\ list = <<"b", "a">>
    /\ jsException = TypeMismatch

\* The call on the collection is within its bounds: an element read or
\* removed exists, an insertion is at most at the end.
InBounds(c) ==
    IF c.op = "insert" THEN c.index >= 0 /\ c.index <= c.size
    ELSE c.index >= 0 /\ c.index < c.size

\* C18: inside a write transaction every call splice makes on the collection
\* is within bounds (get and remove at an index below the current size,
\* insert at a position at most the current size), so a splice whose items
\* are of the element schema never raises an out-of-range error: it makes
\* its two calls for each element it deletes and one for each item.
C18_SpliceInBounds ==
    (InWrite("splice") /\ Len(call.numbers) >= 1) =>
        /\ \A n \in 1 .. Len(primitiveCalls) : InBounds(primitiveCalls[n])
        /\ jsException # OutOfRange
        /\ AllConvertible(call.args) =>
               LET s == ContractStart(Len(call.pre), call.numbers[1])
                   d == ContractDelete(Len(call.pre), s, call.numbers)
               IN  /\ jsException = NoException
                   /\ Len(primitiveCalls) = 2 * d + Len(call.args)

\* splice(-2, 2, b, a) on [b, a, b]: get and remove twice at index 1, then
\* insert at 1 and at 2.
C18_Witness ==
    /\ InWrite("splice")
    /\ call.pre = <<"b", "a", "b">>
    /\ call.numbers = <<0 - 2, 2>>
    /\ call.args = <<"b", "a">>
    /\ primitiveCalls =
           <<Primitive("get", 1, <<"b", "a", "b">>), Primitive("remove", 1, <<"b", "a", "b">>),
             Primitive("get", 1, <<"b", "b">>), Primitive("remove", 1, <<"b", "b">>),
             Primitive("insert", 1, <<"b">>), Primitive("insert", 2, <<"b", "b">>)>>

\* C19: every mutating call (push, pop, shift, unshift, splice, indexed
\* write) that fails because no write transaction is active leaves the list
\* with the size and with every element it had before the call.
C19_FailedWriteChangesNothing ==
    (call.op \in Mutators \cup {"set"} /\ jsException = WriteOutsideTransaction) =>
        /\ ~inTransaction
        /\ Len(list) = Len(call.pre)
        /\ \A i \in 1 .. Len(call.pre) : list[i] = call.pre[i]

\* splice(0, 1, a) on the committed list [a, b] with no write transaction:
\* the element is read, its removal is refused.
C19_Witness ==
    /\ ~inTransaction
    /\ call.op = "splice"
    /\ call.pre = <<"a", "b">>
    /\ call.numbers = <<0, 1>>
    /\ call.args = <<"a">>
    /\ jsException = WriteOutsideTransaction
    /\ primitiveCalls = <<Primitive("get", 0, <<"a", "b">>), Primitive("remove", 0, <<"a", "b">>)>>
    /\ list = <<"a", "b">>

\* The list and the error a call leaves are those the splice leaves.
SameEffect(sp) ==
    /\ list = sp.list
    /\ jsException = sp.exc

\* The element a pop or shift hands back is the one the splice removes;
\* on the empty list neither removes anything.
SameRemoved(sp) ==
    IF Len(call.pre) = 0
    THEN returnObject = RetUndefined /\ sp.ret.arr = <<>>
    ELSE sp.ret.arr = <<returnObject.obj>> /\ returnObject = RJSObjectCreate(sp.ret.arr[1])

\* C20: inside a write transaction, for every list L and every non-empty v,
\* push(v) leaves what splice(len(L), 0, v...) leaves, unshift(v) what
\* splice(0, 0, v...) leaves, pop() what splice(-1, 1) leaves and shift()
\* what splice(0, 1) leaves: the same list and the same removed element.
C20_SpliceEquivalences ==
    LET L == call.pre
    IN  /\ (InWrite("push") /\ Len(call.args) >= 1) =>
               SameEffect(ListSplice(L, <<Len(L), 0>>, call.args))
        /\ (InWrite("unshift") /\ Len(call.args) >= 1) =>
               SameEffect(ListSplice(L, <<0, 0>>, call.args))
        /\ (InWrite("pop") /\ Len(call.args) = 0) =>
               /\ SameEffect(ListSplice(L, <<0 - 1, 1>>, <<>>))
               /\ SameRemoved(ListSplice(L, <<0 - 1, 1>>, <<>>))
        /\ (InWrite("shift") /\ Len(call.args) = 0) =>
               /\ SameEffect(ListSplice(L, <<0, 1>>, <<>>))
               /\ SameRemoved(ListSplice(L, <<0, 1>>, <<>>))

\* pop() on [a, a, b] inside a write transaction hands back b and leaves
\* [a, a], as splice(-1, 1) does.
C20_Witness ==
    /\ InWrite("pop")
    /\ Len(call.args) = 0
    /\ call.pre = <<"a", "a", "b">>
    /\ list = <<"a", "a">>
    /\ returnObject = RJSObjectCreate("b")
    /\ ListSplice(call.pre, <<0 - 1, 1>>, <<>>).ret.arr = <<"b">>

====
